---- MODULE Spec2Model ----
(***************************************************************************)
(* Model of the N64 memory-map CLI (src/main.rs): the three range tables,  *)
(* the address classifier, the short-string formatter, the trace-line      *)
(* rewriter and main's dispatch.                                           *)
(*                                                                         *)
(* Representation.  A u32 is a pair <<hi, lo>> of 16-bit words (value      *)
(* hi * 2^16 + lo) and a u64 a 4-tuple of 16-bit words, most significant   *)
(* first, because the model checker's integers are 32-bit signed.  A       *)
(* string is a sequence of one-character strings.  Option<T> is a sequence *)
(* of length at most one: <<>> is None, <<v>> is Some(v).                  *)
(***************************************************************************)
EXTENDS Integers, Sequences, FiniteSets, TLC

VARIABLES
    args,           \* env::args() without the program name
    fs,             \* the file at the path named by the argument: None or Some(lines)
    io_fail_at,     \* 1-based index of the line whose read fails (0: every read succeeds)
    pc,             \* position of main: "main", "lines", "done", "exit1"
    pos,            \* number of lines consumed from the reader
    stdout,         \* lines printed by rewrite_lines_of_file, or the short string
    described       \* the AddressLocation pretty-printed by main (Option)

vars == <<args, fs, io_fail_at, pc, pos, stdout, described>>

(***************************************************************************)
(* Bounds of the model.                                                    *)
(***************************************************************************)
MaxLines == 2           \* longest multi-line trace file
MaxSubregions == 2      \* longest synthetic subregion list handed to the formatter

(***************************************************************************)
(* Characters.                                                             *)
(***************************************************************************)
LowerLetters == <<"a","b","c","d","e","f","g","h","i","j","k","l","m",
                  "n","o","p","q","r","s","t","u","v","w","x","y","z">>
UpperLetters == <<"A","B","C","D","E","F","G","H","I","J","K","L","M",
                  "N","O","P","Q","R","S","T","U","V","W","X","Y","Z">>
HexDigits == <<"0","1","2","3","4","5","6","7","8","9","a","b","c","d","e","f">>
UpperHexDigits == <<"0","1","2","3","4","5","6","7","8","9","A","B","C","D","E","F">>

Range(s) == {s[i] : i \in 1..Len(s)}

IndexOf(s, c) == CHOOSE i \in 1..Len(s) : s[i] = c

\* char::to_uppercase on the ASCII characters the tables and lines contain
ToUpperChar(c) ==
    IF c \in Range(LowerLetters) THEN UpperLetters[IndexOf(LowerLetters, c)] ELSE c

\* str::to_uppercase
to_uppercase(s) == [i \in 1..Len(s) |-> ToUpperChar(s[i])]

(***************************************************************************)
(* 16-bit words and u32 arithmetic.                                        *)
(***************************************************************************)
\* x & y on 16-bit words
BitAnd(x, y) ==
    LET and[i \in 0..16] ==
            IF i = 16 THEN 0
            ELSE ((x \div 2^i) % 2) * ((y \div 2^i) % 2) * 2^i + and[i + 1]
    IN  and[0]

\* a & b on u32
And32(a, b) == <<BitAnd(a[1], b[1]), BitAnd(a[2], b[2])>>

\* a <= b on u32
LeqStrict32(a, b) == a[1] < b[1] \/ (a[1] = b[1] /\ a[2] < b[2])
Leq32(a, b) == a[1] < b[1] \/ (a[1] = b[1] /\ a[2] <= b[2])

(***************************************************************************)
(* The range tables.  short is the short name, long the long name.         *)
(***************************************************************************)
R(s1, s2, e1, e2, short, long) ==
    [start |-> <<s1, s2>>, end |-> <<e1, e2>>, short |-> short, long |-> long]

SEGMENTS == <<
    R(\h0000, \h0000, \h7FFF, \hFFFF, <<"U">>, "KUSEG"),
    R(\h8000, \h0000, \h9FFF, \hFFFF, <<"0">>, "KSEG0"),
    R(\hA000, \h0000, \hBFFF, \hFFFF, <<"1">>, "KSEG1"),
    R(\hC000, \h0000, \hDFFF, \hFFFF, <<"S">>, "KSSEG"),
    R(\hE000, \h0000, \hFFFF, \hFFFF, <<"3">>, "KSEG3") >>

REGIONS == <<
    R(\h0000, \h0000, \h03FF, \hFFFF, <<"R">>, "RDRAM"),
    R(\h0400, \h0000, \h049F, \hFFFF, <<"G">>, "RCP"),
    R(\h0500, \h0000, \h1FBF, \hFFFF, <<"P">>, "PI 1/2"),
    R(\h1FC0, \h0000, \h1FCF, \hFFFF, <<"S">>, "SI"),
    R(\h1FD0, \h0000, \h7FFF, \hFFFF, <<"B">>, "PI 2/2"),
    R(\h8000, \h0000, \hFFFF, \hFFFF, <<"U">>, "Unmapped") >>

SUBREGIONS == <<
    R(\h0000, \h0000, \h03EF, \hFFFF, <<"R","D","R","M">>, "RDRAM memory-space"),
    R(\h03F0, \h0000, \h03F7, \hFFFF, <<"R","D","R","R">>, "RDRAM registers"),
    R(\h03F8, \h0000, \h03FF, \hFFFF, <<"R","D","R","B">>, "RDRAM broadcast registers"),
    R(\h0400, \h0000, \h0400, \h0FFF, <<"R","S","P","D">>, "RSP Data Memory"),
    R(\h0400, \h1000, \h0400, \h1FFF, <<"R","S","P","I">>, "RSP Instruction Memory"),
    R(\h0400, \h2000, \h0403, \hFFFF, <<"R","S","P","M">>, "RSP DMEM/IMEM Mirrors"),
    R(\h0404, \h0000, \h040B, \hFFFF, <<"R","S","P","R">>, "RSP Registers"),
    R(\h040C, \h0000, \h040F, \hFFFF, <<"R","C","P","U">>, "Unmapped/fatal"),
    R(\h0410, \h0000, \h041F, \hFFFF, <<"R","D","P","C">>, "RDP Command Registers"),
    R(\h0420, \h0000, \h042F, \hFFFF, <<"R","D","P","S">>, "RDP Span Registers"),
    R(\h0430, \h0000, \h043F, \hFFFF, <<"I","n","M","I">>, "MIPS Interface"),
    R(\h0440, \h0000, \h044F, \hFFFF, <<"I","n","V","I">>, "Video Interface"),
    R(\h0450, \h0000, \h045F, \hFFFF, <<"I","n","A","I">>, "Audio Interface"),
    R(\h0460, \h0000, \h046F, \hFFFF, <<"I","n","P","I">>, "Peripheral Interface"),
    R(\h0470, \h0000, \h047F, \hFFFF, <<"I","n","R","I">>, "RDRAM Interface"),
    R(\h0480, \h0000, \h048F, \hFFFF, <<"I","n","S","I">>, "Serial Interface"),
    R(\h0490, \h0000, \h04FF, \hFFFF, <<"R","C","P","u">>, "Unmapped/fatal"),
    R(\h0500, \h0000, \h05FF, \hFFFF, <<"N","D","D","R">>, "N64DD Registers"),
    R(\h0600, \h0000, \h07FF, \hFFFF, <<"N","D","D","I">>, "N64DD IPL ROM"),
    R(\h0800, \h0000, \h0FFF, \hFFFF, <<"C","S","R","M">>, "Cartridge SRAM"),
    R(\h1000, \h0000, \h1FBF, \hFFFF, <<"C","R","O","M">>, "Cartridge ROM"),
    R(\h1FC0, \h0000, \h1FC0, \h07BF, <<"P","I","F","R">>, "PIF ROM"),
    R(\h1FC0, \h07C0, \h1FC0, \h07FF, <<"P","I","F","R">>, "PIF RAM"),
    R(\h1FC0, \h0800, \h1FCF, \hFFFF, <<"R","S","V","D">>, "Reserved"),
    R(\h1FD0, \h0000, \h1FFF, \hFFFF, <<"U","P","B","1">>, "Unused / PI BUS Domain 1"),
    R(\h2000, \h0000, \h7FFF, \hFFFF, <<"U","C","P","A">>,
      "Unused / PI BUS Domain 1 [CPU Accessible]"),
    R(\h8000, \h0000, \hFFFF, \hFFFF, <<"U","N","M","P">>, "Unmapped/fatal") >>

(***************************************************************************)
(* get_segment_region_subregion                                            *)
(***************************************************************************)
\* the closure |reg| reg.0 <= a && a <= reg.1, with the end bound excluded
ContainsExclusiveEnd(reg, a) == Leq32(reg.start, a) /\ LeqStrict32(a, reg.end)

\* the closure |reg| reg.0 <= a && a <= reg.1
Contains(reg, a) == Leq32(reg.start, a) /\ Leq32(a, reg.end)

\* the indices of the ranges of table that contain a
Matches(table, a) == {i \in 1..Len(table) : Contains(table[i], a)}

Min(S) == CHOOSE m \in S : \A n \in S : m <= n

\* .iter().find(...).map(|r| (r.2, r.3)): the first matching range, or None
FindFirst(table, a) ==
    IF Matches(table, a) = {} THEN <<>>
    ELSE LET r == table[Min(Matches(table, a))]
         IN  << [short |-> r.short, long |-> r.long] >>

\* the filter with the end bound of each range excluded
FilterAllExclusiveEnd(table, a) ==
    LET kept == SelectSeq(table, LAMBDA reg : ContainsExclusiveEnd(reg, a))
    IN  [i \in 1..Len(kept) |-> [short |-> kept[i].short, long |-> kept[i].long]]

\* .iter().filter(...).map(|r| (r.2, r.3)).collect(): every matching range, in table order
FilterAll(table, a) ==
    LET kept == SelectSeq(table, LAMBDA reg : Contains(reg, a))
    IN  [i \in 1..Len(kept) |-> [short |-> kept[i].short, long |-> kept[i].long]]

\* address & 0x3FFF_FFFF: a mask that keeps bit 29
MaskAddressKeepBit29(address) == And32(address, <<\h3FFF, \hFFFF>>)

\* address & 0x1FFF_FFFF
MaskAddress(address) == And32(address, <<\h1FFF, \hFFFF>>)

get_segment_region_subregion(address) ==
    LET address_raw == MaskAddress(address)
    IN  [ virtual_address  |-> address,
          physical_address |-> address_raw,
          segment          |-> FindFirst(SEGMENTS, address),
          region           |-> FindFirst(REGIONS, address_raw),
          subregions       |-> FilterAll(SUBREGIONS, address_raw) ]

(***************************************************************************)
(* address_location_to_string                                              *)
(***************************************************************************)
\* [&str]::join(sep): the strings in order, sep between consecutive ones
Join(strs, sep) ==
    LET joined[i \in 0..Len(strs)] ==
            IF i = 0 THEN <<>>
            ELSE IF i = 1 THEN strs[1]
            ELSE joined[i - 1] \o sep \o strs[i]
    IN  joined[Len(strs)]

\* Option<(&str, &str)>::unwrap_or(("?", "?")).0
ShortOrPlaceholder(opt) == IF opt = <<>> THEN <<"?">> ELSE opt[1].short

\* format!("{}{}.{}", ...) with the region and the segment swapped
address_location_to_string_swapped(address_location) ==
    LET subregion_short_names ==
            [i \in 1..Len(address_location.subregions) |->
                address_location.subregions[i].short]
    IN  ShortOrPlaceholder(address_location.region)
        \o ShortOrPlaceholder(address_location.segment)
        \o <<".">>
        \o Join(subregion_short_names, <<".">>)

address_location_to_string(address_location) ==
    LET subregion_short_names ==
            [i \in 1..Len(address_location.subregions) |->
                address_location.subregions[i].short]
    IN  ShortOrPlaceholder(address_location.segment)
        \o ShortOrPlaceholder(address_location.region)
        \o <<".">>
        \o Join(subregion_short_names, <<".">>)

(***************************************************************************)
(* Number parsing and formatting.                                          *)
(***************************************************************************)
IsHexDigit(c) == c \in Range(HexDigits) \/ c \in Range(UpperHexDigits)

\* char::to_digit(16)
DigitValue(c) ==
    IF c \in Range(HexDigits) THEN IndexOf(HexDigits, c) - 1
    ELSE IndexOf(UpperHexDigits, c) - 1

\* the value of a digit string as nwords 16-bit words, most significant first:
\* None when a character is no digit (InvalidDigit) or when the value needs
\* more than nwords words (PosOverflow), as the checked multiply-and-add loop
\* of from_str_radix reports them
ParseDigits(digits, nwords) ==
    LET n == Len(digits)
        \* the digit worth 16^p, 0 beyond the string
        nibble(p) == IF p < n THEN DigitValue(digits[n - p]) ELSE 0
    IN  IF \E i \in 1..n : ~IsHexDigit(digits[i]) THEN <<>>
        ELSE IF \E i \in 1..n : i <= n - 4 * nwords /\ DigitValue(digits[i]) # 0 THEN <<>>
        ELSE << [w \in 1..nwords |->
                    nibble(4 * (nwords - w)) + 16 * nibble(4 * (nwords - w) + 1)
                    + 256 * nibble(4 * (nwords - w) + 2)
                    + 4096 * nibble(4 * (nwords - w) + 3)] >>

\* uN::from_str_radix(src, 16) for an unsigned type of nwords 16-bit words:
\* Some(words) or None (the Err cases: empty, a lone sign, an invalid digit, overflow)
from_str_radix(src, nwords) ==
    IF src = <<>> THEN <<>>
    ELSE IF src[1] \in {"+", "-"} /\ Len(src) = 1 THEN <<>>
    ELSE ParseDigits(IF src[1] = "+" THEN Tail(src) ELSE src, nwords)

\* (int_val & 0x0000_ffff_ffff) as u32
Lower32(int_val) ==
    << BitAnd(int_val[3], \hFFFF), BitAnd(int_val[4], \hFFFF) >>

\* the eight nibbles of a u32, most significant first
Nibbles(v) ==
    << v[1] \div \h1000, (v[1] \div \h100) % 16, (v[1] \div \h10) % 16, v[1] % 16,
       v[2] \div \h1000, (v[2] \div \h100) % 16, (v[2] \div \h10) % 16, v[2] % 16 >>

\* the digits from the first non-zero one on; a single 0 for zero
StripLeadingZeros(ns) ==
    IF \A i \in 1..Len(ns) : ns[i] = 0 THEN <<0>>
    ELSE SubSeq(ns, Min({i \in 1..Len(ns) : ns[i] # 0}), Len(ns))

\* {:x}: lower-case hexadecimal, no leading zeros
LowerHex(v) ==
    LET ns == StripLeadingZeros(Nibbles(v))
    IN  [i \in 1..Len(ns) |-> HexDigits[ns[i] + 1]]

Repeat(c, n) == [i \in 1..n |-> c]

\* {:#08x}: "0x", then zeros up to a total width of 8 (prefix included), then the digits
FormatAltHex08(v) ==
    LET digits == LowerHex(v)
        fill   == IF 2 + Len(digits) < 8 THEN 8 - 2 - Len(digits) ELSE 0
    IN  <<"0", "x">> \o Repeat("0", fill) \o digits

\* {} in place of {:<12}: no padding
NoPad12(s) == s

\* {:<12}: left-justified, space-padded to a width of at least 12
PadLeft12(s) == IF Len(s) < 12 THEN s \o Repeat(" ", 12 - Len(s)) ELSE s

(***************************************************************************)
(* The line pattern of rewrite_lines_of_file.                              *)
(***************************************************************************)
\* \s, on the whitespace characters the lines contain
IsSpace(c) == c \in {" ", "\t"}

RECURSIVE SkipSpace(_, _)
\* the first position at or after i that holds no whitespace (greedy \s*)
SkipSpace(line, i) ==
    IF i <= Len(line) /\ IsSpace(line[i]) THEN SkipSpace(line, i + 1) ELSE i

\* re.captures(&line) for the pattern ^([A-Z]{3})\s*([a-f0-9]{16})\s*(.*)$ :
\* Some of the three groups, or None
re_captures(line) ==
    IF Len(line) < 3 \/ \E i \in 1..3 : line[i] \notin Range(UpperLetters) THEN <<>>
    ELSE LET h == SkipSpace(line, 4)
         IN  IF h + 15 > Len(line)
                \/ \E i \in h..(h + 15) : line[i] \notin Range(HexDigits)
             THEN <<>>
             ELSE << [ prefix |-> SubSeq(line, 1, 3),
                       hex    |-> SubSeq(line, h, h + 15),
                       suffix |-> SubSeq(line, SkipSpace(line, h + 16), Len(line)) ] >>

\* the Some(caps) arm with the masked (physical) address printed
rewritten_line_physical(caps) ==
    LET int_val           == from_str_radix(caps.hex, 4)[1]
        lower_32_bits_val == Lower32(int_val)
        location          == get_segment_region_subregion(lower_32_bits_val)
    IN  caps.prefix \o <<" ">>
        \o PadLeft12(to_uppercase(address_location_to_string(location))) \o <<" ">>
        \o FormatAltHex08(location.physical_address) \o <<" ">>
        \o caps.suffix

\* the Some(caps) arm: the line println! writes
rewritten_line(caps) ==
    LET int_val           == from_str_radix(caps.hex, 4)[1]
        lower_32_bits_val == Lower32(int_val)
        location          == get_segment_region_subregion(lower_32_bits_val)
    IN  caps.prefix \o <<" ">>
        \o PadLeft12(to_uppercase(address_location_to_string(location))) \o <<" ">>
        \o FormatAltHex08(lower_32_bits_val) \o <<" ">>
        \o caps.suffix

\* println! that writes before the lines already written
println_first(out, line) == <<line>> \o out

\* println!: one more line on stdout
println(out, line) == Append(out, line)

(***************************************************************************)
(* Inputs: command lines and trace files.                                  *)
(***************************************************************************)
LineExample ==
    <<"C","P","U"," ","0","0","0","0","0","0","0","0","8","0","0","0","0","0","0","0"," ","e","x","t","r","a"," ","t","e","x","t">>
LineNoSpace ==
    <<"C","P","U","0","0","0","0","0","0","0","0","8","0","0","0","0","0","0","0"," ","e","x","t","r","a"," ","t","e","x","t">>
LineWideSpace ==
    <<"R","S","P"," ","\t"," ","f","f","f","f","f","f","f","f","a","3","f","0","0","0","1","0"," "," ","x">>
LineHello ==
    <<"h","e","l","l","o"," ","w","o","r","l","d">>
LineLowerPrefix ==
    <<"c","p","u"," ","0","0","0","0","0","0","0","0","8","0","0","0","0","0","0","0"," ","x">>
LineUpperHex ==
    <<"C","P","U"," ","0","0","0","0","0","0","0","0","A","4","0","0","0","0","0","0"," ","x">>
LineShortHex ==
    <<"C","P","U"," ","0","0","0","0","0","0","0","0","8","0","0","0","0","0","0"," ","x">>
LineLeadingSpace ==
    <<" ","C","P","U"," ","0","0","0","0","0","0","0","0","8","0","0","0","0","0","0","0">>
LineGap ==
    <<"R","S","P"," ","0","0","0","0","0","0","0","0","0","4","a","0","0","0","0","0">>
LineFourLetters ==
    <<"C","P","U","X"," ","0","0","0","0","0","0","0","0","8","0","0","0","0","0","0","0">>
LineLongHex ==
    <<"C","P","U"," ","0","0","0","0","0","0","0","0","0","4","3","0","0","0","0","0","1"," ","y">>
ArgNotHex ==
    <<"0","x","z","z">>
ArgOverflow ==
    <<"0","x","1","f","f","f","f","f","f","f","f">>
ArgPlus ==
    <<"0","x","+","a","3","f","0","0","0","1","0">>
ArgUpper ==
    <<"0","x","A","3","F","0","0","0","1","0">>
ArgShort ==
    <<"0","x","4","0","4","0","1","0","0">>
ArgPlusOnly ==
    <<"0","x","+">>
ArgEmptyHex ==
    <<"0","x">>
FileArg ==
    <<"t","r","a","c","e",".","l","o","g">>

\* the four lower-case hexadecimal digits of a 16-bit word
Word4(w) ==
    << HexDigits[(w \div \h1000) + 1], HexDigits[((w \div \h100) % 16) + 1],
       HexDigits[((w \div \h10) % 16) + 1], HexDigits[(w % 16) + 1] >>

\* the eight lower-case hexadecimal digits of a u32
Hex8(a) == Word4(a[1]) \o Word4(a[2])

Inc32(a) == IF a[2] = \hFFFF THEN <<a[1] + 1, 0>> ELSE <<a[1], a[2] + 1>>
Dec32(a) == IF a[2] = 0 THEN <<a[1] - 1, \hFFFF>> ELSE <<a[1], a[2] - 1>>

AllRanges == Range(SEGMENTS) \cup Range(REGIONS) \cup Range(SUBREGIONS)

\* every bound of every range of the three tables, with its neighbours, and
\* the addresses 0xA3F00010 and 0x04040100
Boundaries ==
    {r.start : r \in AllRanges} \cup {r.end : r \in AllRanges}
    \cup {Dec32(r.start) : r \in {q \in AllRanges : q.start # <<0, 0>>}}
    \cup {Inc32(r.end) : r \in {q \in AllRanges : q.end # <<\hFFFF, \hFFFF>>}}
    \cup {<<\hA3F0, \h0010>>, <<\h0404, \h0100>>}

\* a with bits 29-31 replaced by t
WithTopBits(a, t) == <<(a[1] % \h2000) + t * \h2000, a[2]>>

\* one address of every interval the tables cut the 32-bit space into, under
\* each of the eight values of bits 29-31
ProbeAddresses == {WithTopBits(a, t) : a \in Boundaries, t \in 0..7}

AddressArgs ==
    {<<"0", "x">> \o Hex8(a) : a \in ProbeAddresses}
    \cup {ArgNotHex, ArgOverflow, ArgPlus, ArgUpper, ArgShort, ArgPlusOnly, ArgEmptyHex}

\* a well-formed trace line for every probe address, under two upper halves
AddressLines ==
    {<<"C", "P", "U", " ">> \o Word4(u) \o Word4(u) \o Hex8(a) \o <<" ", "t">> :
        a \in ProbeAddresses, u \in {0, \hFFFF}}

\* lines around the edges of the pattern
EdgeLines ==
    { LineExample, LineNoSpace, LineWideSpace, LineHello, LineLowerPrefix,
      LineUpperHex, LineShortHex, LineLeadingSpace, LineGap, LineFourLetters,
      LineLongHex, <<>> }

SeqsUpTo(S, n) == UNION {[1..k -> S] : k \in 0..n}

Files == SeqsUpTo(EdgeLines, MaxLines) \cup {<<l>> : l \in AddressLines}

(***************************************************************************)
(* main and rewrite_lines_of_file                                          *)
(***************************************************************************)
Init ==
    /\ pc = "main"
    /\ pos = 0
    /\ stdout = <<>>
    /\ described = <<>>
    /\ \/ args = <<>> /\ fs = <<>> /\ io_fail_at = 0
       \/ args \in {<<a>> : a \in AddressArgs} /\ fs = <<>> /\ io_fail_at = 0
       \/ args = <<FileArg>> /\ fs = <<>> /\ io_fail_at = 0
       \/ /\ args = <<FileArg>>
          /\ fs \in {<<f>> : f \in Files}
          /\ io_fail_at \in 0..Len(fs[1])

\* arg.starts_with("0x")
StartsWith0x(arg) == Len(arg) >= 2 /\ arg[1] = "0" /\ arg[2] = "x"

\* u32::from_str_radix(&arg[2..], 16)
ParseAddress(arg) == from_str_radix(SubSeq(arg, 3, Len(arg)), 2)

\* args.len() < 2: usage error
MainNoArgs ==
    /\ pc = "main"
    /\ Len(args) < 1
    /\ pc' = "exit1"
    /\ UNCHANGED <<args, fs, io_fail_at, pos, stdout, described>>

\* the argument is an address: classify it and pretty-print the location
MainAddress ==
    /\ pc = "main"
    /\ Len(args) >= 1
    /\ StartsWith0x(args[1])
    /\ ParseAddress(args[1]) # <<>>
    /\ described' = << get_segment_region_subregion(ParseAddress(args[1])[1]) >>
    /\ pc' = "done"
    /\ UNCHANGED <<args, fs, io_fail_at, pos, stdout>>

\* the argument starts with 0x and is no 32-bit hexadecimal number
MainInvalidAddress ==
    /\ pc = "main"
    /\ Len(args) >= 1
    /\ StartsWith0x(args[1])
    /\ ParseAddress(args[1]) = <<>>
    /\ pc' = "exit1"
    /\ UNCHANGED <<args, fs, io_fail_at, pos, stdout, described>>

\* File::open(&path)? fails
OpenFails ==
    /\ pc = "main"
    /\ Len(args) >= 1
    /\ ~StartsWith0x(args[1])
    /\ fs = <<>>
    /\ pc' = "exit1"
    /\ UNCHANGED <<args, fs, io_fail_at, pos, stdout, described>>

\* File::open(&path)? succeeds: the loop over reader.lines() starts
OpenFile ==
    /\ pc = "main"
    /\ Len(args) >= 1
    /\ ~StartsWith0x(args[1])
    /\ fs # <<>>
    /\ pc' = "lines"
    /\ UNCHANGED <<args, fs, io_fail_at, pos, stdout, described>>

\* one iteration, the line matches: print the rewritten line
RewriteLine ==
    /\ pc = "lines"
    /\ pos < Len(fs[1])
    /\ pos + 1 # io_fail_at
    /\ re_captures(fs[1][pos + 1]) # <<>>
    /\ stdout' = println(stdout, rewritten_line(re_captures(fs[1][pos + 1])[1]))
    /\ pos' = pos + 1
    /\ UNCHANGED <<args, fs, io_fail_at, pc, described>>

\* one iteration, the line does not match: print it as it is
PassLine ==
    /\ pc = "lines"
    /\ pos < Len(fs[1])
    /\ pos + 1 # io_fail_at
    /\ re_captures(fs[1][pos + 1]) = <<>>
    /\ stdout' = println(stdout, fs[1][pos + 1])
    /\ pos' = pos + 1
    /\ UNCHANGED <<args, fs, io_fail_at, pc, described>>

\* one iteration, line? returns the read error
ReadError ==
    /\ pc = "lines"
    /\ pos < Len(fs[1])
    /\ pos + 1 = io_fail_at
    /\ pc' = "exit1"
    /\ UNCHANGED <<args, fs, io_fail_at, pos, stdout, described>>

\* the reader is exhausted: Ok(())
EndOfFile ==
    /\ pc = "lines"
    /\ pos = Len(fs[1])
    /\ pc' = "done"
    /\ UNCHANGED <<args, fs, io_fail_at, pos, stdout, described>>

Next ==
    \/ MainNoArgs
    \/ MainAddress
    \/ MainInvalidAddress
    \/ OpenFails
    \/ OpenFile
    \/ RewriteLine
    \/ PassLine
    \/ ReadError
    \/ EndOfFile

Spec == Init /\ [][Next]_vars

(***************************************************************************)
(* The formatter as a pure function: every AddressLocation the type        *)
(* admits, not only those the production tables produce.                   *)
(***************************************************************************)
Name(r) == [short |-> r.short, long |-> r.long]

SampleSubregions == {Name(SUBREGIONS[1]), Name(SUBREGIONS[11]), Name(SUBREGIONS[17])}

SyntheticLocations ==
    { [ virtual_address  |-> <<0, 0>>,
        physical_address |-> <<0, 0>>,
        segment          |-> seg,
        region           |-> reg,
        subregions       |-> subs ] :
        seg  \in {<<>>} \cup {<<Name(r)>> : r \in Range(SEGMENTS)},
        reg  \in {<<>>} \cup {<<Name(r)>> : r \in Range(REGIONS)},
        subs \in SeqsUpTo(SampleSubregions, MaxSubregions) }

FormatterInputs ==
    SyntheticLocations \cup {get_segment_region_subregion(a) : a \in ProbeAddresses}

InitFormat ==
    /\ pc = "format"
    /\ pos = 0
    /\ stdout = <<>>
    /\ args = <<>>
    /\ fs = <<>>
    /\ io_fail_at = 0
    /\ described \in {<<l>> : l \in FormatterInputs}

\* address_location_to_string(&location).to_uppercase()
FormatLocation ==
    /\ pc = "format"
    /\ stdout' = println(stdout, to_uppercase(address_location_to_string(described[1])))
    /\ pc' = "done"
    /\ UNCHANGED <<args, fs, io_fail_at, pos, described>>

SpecFormat == InitFormat /\ [][FormatLocation]_vars

(***************************************************************************)
(* Properties.                                                             *)
(***************************************************************************)
\* the address a matching line carries: the lower 32 bits of its 16 digits
LineAddress(line) == Lower32(from_str_radix(re_captures(line)[1].hex, 4)[1])

\* the upper-cased short string of an address
ShortString(a) ==
    to_uppercase(address_location_to_string(get_segment_region_subregion(a)))

\* what the loop body prints for a line taken alone
LineOutput(line) ==
    IF re_captures(line) = <<>> THEN line
    ELSE rewritten_line(re_captures(line)[1])

\* the lines of the file that have been printed so far
Printed == IF fs = <<>> THEN {} ELSE 1..Len(stdout)

\* C1: every masked address lies in exactly one range of REGIONS, so the
\* region of a classified address is never absent.
C1_RegionExactlyOne ==
    described # <<>> =>
        /\ described[1].region # <<>>
        /\ Cardinality(Matches(REGIONS, described[1].physical_address)) = 1

\* C2: every 32-bit address lies in exactly one range of SEGMENTS, so the
\* first-match scan over the unmasked address returns a segment, and it is
\* the only range that contains the address.
C2_SegmentExactlyOne ==
    described # <<>> =>
        LET loc == described[1]
            hit == Matches(SEGMENTS, loc.virtual_address)
        IN  /\ Cardinality(hit) = 1
            /\ loc.segment # <<>>
            /\ \A i \in hit : loc.segment[1] = Name(SEGMENTS[i])

C2_Witness ==
    /\ described # <<>>
    /\ described[1].virtual_address = <<\hFFFF, \hFFFF>>
    /\ described[1].segment # <<>>
    /\ described[1].segment[1].long = "KSEG3"

\* C3: every rewritten line is the prefix, a space, the upper-cased short
\* string padded to 12 columns, a space, 0x and exactly eight hexadecimal
\* digits of the lower 32 bits, a space, and the trailing text.
C3_EightHexDigits ==
    \A i \in Printed :
        re_captures(fs[1][i]) # <<>> =>
            stdout[i] =
                re_captures(fs[1][i])[1].prefix \o <<" ">>
                \o PadLeft12(ShortString(LineAddress(fs[1][i]))) \o <<" ">>
                \o <<"0", "x">> \o Hex8(LineAddress(fs[1][i])) \o <<" ">>
                \o re_captures(fs[1][i])[1].suffix

OutExampleClaimed ==
    <<"C","P","U"," ","0","R",".","R","D","R","M"," "," "," "," "," "," "," ","0","x","0","0","0","0","0","0","0","0"," ","e","x","t","r","a"," ","t","e","x","t">>
OutExample ==
    <<"C","P","U"," ","0","R",".","R","D","R","M"," "," "," "," "," "," ","0","x","8","0","0","0","0","0","0","0"," ","e","x","t","r","a"," ","t","e","x","t">>

\* C4 as stated: the line "CPU 0000000080000000 extra text" is rewritten to
\* "CPU 0R.RDRM       0x00000000 extra text".
C4_ClaimedOutput ==
    \A i \in Printed : fs[1][i] = LineExample => stdout[i] = OutExampleClaimed

\* C4 amended: the line "CPU 0000000080000000 extra text" is rewritten to
\* "CPU 0R.RDRM      0x80000000 extra text": the short string padded to 12
\* columns and the unmasked lower 32 bits in the address field.
C4_ExampleOutput ==
    \A i \in Printed : fs[1][i] = LineExample => stdout[i] = OutExample

C4_Witness ==
    /\ pc = "done"
    /\ fs # <<>>
    /\ fs[1] = <<LineHello, LineExample>>
    /\ Len(stdout) = 2

\* C5: the short string is the segment short code (? when absent), the
\* region short code (? when absent), a dot, and the subregion short codes
\* in table order with a dot between consecutive ones, all upper-cased; with
\* no subregion it ends in the dot.  0x80000000 gives 0R.RDRM and
\* 0xA3F00010 gives 1R.RDRR.
C5_ShortString ==
    (pc = "done" /\ described # <<>> /\ Len(stdout) = 1) =>
        LET loc  == described[1]
            s    == stdout[1]
            seg  == IF loc.segment = <<>> THEN <<"?">>
                    ELSE to_uppercase(loc.segment[1].short)
            reg  == IF loc.region = <<>> THEN <<"?">>
                    ELSE to_uppercase(loc.region[1].short)
            n    == Len(loc.subregions)
            code(k) == to_uppercase(loc.subregions[k].short)
            dot  == Len(seg) + Len(reg) + 1
            \* the position before the k-th subregion code
            before[k \in 1..(n + 1)] ==
                IF k = 1 THEN dot ELSE before[k - 1] + Len(code(k - 1)) + 1
        IN  /\ SubSeq(s, 1, Len(seg)) = seg
            /\ SubSeq(s, Len(seg) + 1, Len(seg) + Len(reg)) = reg
            /\ s[dot] = "."
            /\ \A k \in 1..n :
                /\ SubSeq(s, before[k] + 1, before[k] + Len(code(k))) = code(k)
                /\ k < n => s[before[k + 1]] = "."
            /\ Len(s) = IF n = 0 THEN dot ELSE before[n + 1] - 1
            /\ \A i \in 1..Len(s) : s[i] \notin Range(LowerLetters)
            /\ loc = get_segment_region_subregion(<<\h8000, \h0000>>)
                => s = <<"0", "R", ".", "R", "D", "R", "M">>
            /\ loc = get_segment_region_subregion(<<\hA3F0, \h0010>>)
                => s = <<"1", "R", ".", "R", "D", "R", "R">>

C5_Witness ==
    /\ pc = "done"
    /\ described # <<>>
    /\ described[1].segment = <<>>
    /\ Len(described[1].subregions) = 2
    /\ described[1].subregions[1].long = "MIPS Interface"
    /\ Len(stdout) = 1

\* the form C6 names: three upper-case letters, one or more whitespace
\* characters, sixteen lower-case hexadecimal digits, then anything
HasStatedForm(line) ==
    /\ Len(line) >= 20
    /\ \A i \in 1..3 : line[i] \in Range(UpperLetters)
    /\ \E k \in 1..(Len(line) - 19) :
        /\ \A j \in 4..(3 + k) : IsSpace(line[j])
        /\ \A j \in (4 + k)..(19 + k) : line[j] \in Range(HexDigits)

\* C6: a line is rewritten only if it is three upper-case letters, one or
\* more whitespace characters, sixteen lower-case hexadecimal digits and any
\* trailing text; every other line is printed unchanged.
C6_OnlyStatedFormRewritten ==
    \A i \in Printed : ~HasStatedForm(fs[1][i]) => stdout[i] = fs[1][i]

\* the masked addresses among the probes: one of every interval the tables
\* cut [0x00000000, 0x1FFFFFFF] into
MaskedProbes == {a \in ProbeAddresses : Leq32(a, <<\h1FFF, \hFFFF>>)}

\* C7 as stated: SUBREGIONS, the table every address is classified against,
\* is exhaustive over the masked domain and some masked address lies in more
\* than one of its ranges.
C7_SubregionsOverlap ==
    described # <<>> =>
        /\ \A a \in MaskedProbes : Matches(SUBREGIONS, a) # {}
        /\ \E a \in MaskedProbes : Cardinality(Matches(SUBREGIONS, a)) > 1

\* C7 amended: SUBREGIONS is exhaustive over the masked domain and no two of
\* its ranges share a masked address, so exactly one subregion is returned
\* for every 32-bit address.
C7_SubregionsExactlyOne ==
    /\ \A a \in MaskedProbes : Cardinality(Matches(SUBREGIONS, a)) = 1
    /\ described # <<>> =>
        /\ Len(described[1].subregions) = 1
        /\ \A i \in Matches(SUBREGIONS, described[1].physical_address) :
              described[1].subregions[1] = Name(SUBREGIONS[i])

C7_Witness ==
    /\ described # <<>>
    /\ described[1].physical_address = <<\h1FC0, \h07C0>>
    /\ described[1].subregions # <<>>
    /\ described[1].subregions[1].long = "PIF RAM"

\* C8: one output line per input line, in input order, the i-th output line
\* being what the i-th input line gives taken alone; when every read
\* succeeds the run ends with as many output lines as input lines.
C8_LineByLine ==
    fs # <<>> =>
        /\ Len(stdout) = pos
        /\ pos <= Len(fs[1])
        /\ \A i \in 1..Len(stdout) : stdout[i] = LineOutput(fs[1][i])
        /\ (pc = "done" /\ io_fail_at = 0) => Len(stdout) = Len(fs[1])

C8_Witness ==
    /\ pc = "done"
    /\ fs # <<>>
    /\ Len(fs[1]) = 2
    /\ Len(stdout) = 2
    /\ stdout[1] # fs[1][1]
    /\ stdout[2] = fs[1][2]
    /\ stdout[1] # stdout[2]

\* C9: addresses that differ only in bits 29-31 have the same physical
\* address, region and subregions; the physical address is at most
\* 0x1FFFFFFF and masking it again leaves it unchanged.
C9_TopBitsIgnored ==
    described # <<>> =>
        LET loc == described[1]
        IN  /\ \A t \in 0..7 :
                LET other ==
                        get_segment_region_subregion(WithTopBits(loc.virtual_address, t))
                IN  /\ other.physical_address = loc.physical_address
                    /\ other.region = loc.region
                    /\ other.subregions = loc.subregions
            /\ Leq32(loc.physical_address, <<\h1FFF, \hFFFF>>)
            /\ MaskAddress(loc.physical_address) = loc.physical_address

C9_Witness ==
    /\ described # <<>>
    /\ described[1].virtual_address = <<\hA3F0, \h0010>>
    /\ described[1].physical_address = <<\h03F0, \h0010>>
    /\ described[1].segment # <<>>
    /\ described[1].segment[1].long = "KSEG1"

\* C10: the upper-cased short string of every address has at most 12
\* characters, so in every rewritten line it fills columns 5-16 and the
\* address field starts at column 18.
C10_ShortColumn ==
    /\ described # <<>> =>
        Len(to_uppercase(address_location_to_string(described[1]))) <= 12
    /\ \A i \in Printed :
        re_captures(fs[1][i]) # <<>> =>
            LET out   == stdout[i]
                short == ShortString(LineAddress(fs[1][i]))
            IN  /\ Len(short) <= 12
                /\ Len(out) >= 19
                /\ out[4] = " "
                /\ SubSeq(out, 5, 4 + Len(short)) = short
                /\ \A k \in (5 + Len(short))..17 : out[k] = " "
                /\ out[18] = "0"
                /\ out[19] = "x"

C10_Witness ==
    /\ fs # <<>>
    /\ \E i \in 1..Len(stdout) :
        /\ fs[1][i] = LineLongHex
        /\ SubSeq(stdout[i], 5, 11) = <<"U", "G", ".", "I", "N", "M", "I">>

====
